---- MODULE Spec2Model ----
(* Bitemporal entity/state/audit graph of BTMG: the mutation pipeline of     *)
(* src/graph/crud.ts over the Cypher queries of src/neo4j/cypher.ts, run by  *)
(* several clients against one store.  Every write transaction is one        *)
(* atomic step; the awaits between a client's clock read, its read           *)
(* transaction and its write transaction are the interleaving points.        *)
EXTENDS Integers, Sequences, FiniteSets, TLC

\* ---------------------------------------------------------------- bounds
MaxOps == 3        \* randomUUID() draws the clients may make in one run
MaxClock == 2      \* last value of the wall clock
MaxCalls == 2      \* calls that reach the store in a run of SpecUpsert

\* ------------------------------------------------------------- universe
Clients == {"alice", "bob"}
Ids == {1, 2}                    \* ids a caller passes to upsert/delete/relate
UuidBase == 100                  \* randomUUID() values are UuidBase + n
NoId == 0                        \* id argument left undefined
NULL == 0                        \* Cypher null for timestamps and links

\* property values, by the JavaScript type the Zod schemas test
StringValues == {"sA", "sB", "d1", "a.ts", "b.py", "f", "g", "C"}
NumberValues == {"n1"}
DateValues == {"d1"}
NoDefault == "undefined"

\* tests/fixtures: testSchema, and Observation of the agentMemory preset
NodeDefs ==
  [Person |->
     [name |-> [type |-> "string", required |-> TRUE, default |-> NoDefault],
      age |-> [type |-> "number", required |-> FALSE, default |-> NoDefault]],
   Project |->
     [name |-> [type |-> "string", required |-> TRUE, default |-> NoDefault],
      description |-> [type |-> "string", required |-> FALSE, default |-> NoDefault]],
   Observation |->
     [type |-> [type |-> "enum", required |-> TRUE, default |-> NoDefault,
                values |-> {"decision", "note"}],
      summary |-> [type |-> "string", required |-> TRUE, default |-> NoDefault],
      status |-> [type |-> "enum", required |-> FALSE, default |-> "open",
                  values |-> {"open", "resolved"}]]]

NoProperties == [none |-> [type |-> "json", required |-> FALSE, default |-> NoDefault]]

EdgeDefs ==
  {[type |-> "WORKS_ON", from |-> "Person", to |-> "Project", declared |-> TRUE,
    properties |->
      [since |-> [type |-> "date", required |-> FALSE, default |-> NoDefault],
       role |-> [type |-> "string", required |-> FALSE, default |-> NoDefault]]],
   [type |-> "MANAGES", from |-> "Person", to |-> "Person", declared |-> FALSE,
    properties |-> NoProperties],
   [type |-> "IMPORTS", from |-> "Project", to |-> "Project", declared |-> FALSE,
    properties |-> NoProperties]}

\* a property map is a set of <<key, value>> pairs with distinct keys
Keys(props) == {p[1] : p \in props}

\* inputs of upsert: property maps and labels a caller may send
NodePropInputs ==
  {{<<"name", "sA">>},
   {<<"name", "sB">>, <<"age", "n1">>},
   {},
   {<<"name", "n1">>},
   {<<"name", "sA">>, <<"zzz", "sA">>}}
LabelInputs == {"Person", "Project", "Ghost"}

\* inputs of relate / unrelate
EdgePropInputs ==
  {[defined |-> FALSE, props |-> {}],
   [defined |-> TRUE, props |-> {<<"role", "sA">>}],
   [defined |-> TRUE, props |-> {<<"role", "n1">>}]}
TypeInputs == {"WORKS_ON", "MANAGES"}
UnrelateTypeInputs == {"WORKS_ON", "MANAGES", "NOT-SAFE"}
EdgeLabelInputs == {"Person", "Project"}

\* ---------------------------------------------------------- validation
\* the Zod type of one property kind
TypeOk(def, v) ==
  CASE def.type = "string" -> v \in StringValues
    [] def.type = "number" -> v \in NumberValues
    [] def.type = "date" -> v \in DateValues
    [] def.type = "enum" -> v \in def.values
    [] OTHER -> TRUE

\* the parse without the check of the required keys
SchemaAcceptsNoRequired(shape, props) ==
  /\ Keys(props) \subseteq DOMAIN shape
  /\ \A p \in props : TypeOk(shape[p[1]], p[2])

\* z.object(shape).strict().safeParse(data).success
SchemaAccepts(shape, props) ==
  /\ Keys(props) \subseteq DOMAIN shape
  /\ \A k \in DOMAIN shape :
       (shape[k].required /\ shape[k].default = NoDefault) => k \in Keys(props)
  /\ \A p \in props : TypeOk(shape[p[1]], p[2])

\* safeParse(data).data: the input with the declared defaults filled in
SchemaData(shape, props) ==
  props \cup {<<k, shape[k].default>> :
                k \in {d \in DOMAIN shape : d \notin Keys(props)
                                           /\ shape[d].default # NoDefault}}

hasNodeLabel(label) == label \in DOMAIN NodeDefs

EdgeDefFor(from, type, to) ==
  {d \in EdgeDefs : d.from = from /\ d.type = type /\ d.to = to}

hasEdgeType(from, type, to) == EdgeDefFor(from, type, to) # {}

\* compileEdgeValidator(def).validate: no declared properties accepts all
EdgeAccepts(def, props) ==
  IF ~def.declared THEN TRUE ELSE SchemaAccepts(def.properties, props)

SafeIdentifiers ==
  {"Person", "Project", "Observation", "WORKS_ON", "MANAGES", "IMPORTS"}
sanitizeOk(value) == value \in SafeIdentifiers

\* ---------------------------------------------------------------- state
VARIABLES
  clock,        \* the wall clock new Date() reads
  uuids,        \* number of randomUUID() values drawn so far
  constraint,   \* entity_id_unique has been created by applyMigrations
  entities,     \* Entity nodes, in creation order
  states,       \* State nodes, in creation order
  audit,        \* AuditEntry nodes, in creation order
  edges,        \* user relationships, in creation order
  client,       \* per client: the call in flight and the last outcome
  docs,         \* the docs directory: the parsed file at each path
  sync,         \* the sync call: its locals, its SyncResult and how it ended
  root,         \* the scan root: its source files and .btmg/fingerprints.json
  scan          \* the scan call: its locals, its ScanResult and how it ended

vars ==
  <<clock, uuids, constraint, entities, states, audit, edges, client, docs, sync,
    root, scan>>
\* what the tools built on the store keep outside it
tools == <<docs, sync, root, scan>>
store == <<constraint, entities, states, audit, edges>>

IdleClient ==
  [pc |-> "idle", op |-> "none", id |-> NoId, toId |-> NoId, label |-> "none",
   type |-> "none", props |-> {}, now |-> NULL, auditId |-> NoId,
   isCreate |-> FALSE, outcome |-> "none", version |-> 0, result |-> NULL]

\* ------------------------------------------------------- docs and sync
SyncIds == {1, 2}
Strategies == {"graph-wins", "docs-wins", "merge", "fail"}

\* computeSyncHash: object-hash of the properties whose key has no "_"
computeSyncHash(props) == <<"sha1", props>>
NoHash == <<"undefined", {}>>        \* frontmatter without _sync_hash

\* resolveFilePattern(template.filePattern, entity) for "{_label}/{_id}.md"
resolveFilePattern(label, id) == <<label, id>>
NotesPath == <<"notes", 0>>          \* a file the pattern gives to no entity
NoPath == <<"undefined", 0>>         \* a change without filePath
DocPaths == ({"Person", "Project", "Observation"} \X SyncIds) \cup {NotesPath}

\* a parsed file: its frontmatter
Doc(id, label, hash, version, props) ==
  [id |-> id, label |-> label, hash |-> hash, version |-> version, props |-> props]
NoDoc == Doc(NoId, "none", NoHash, 0, {})

EmptyResult ==
  [created |-> 0, updated |-> 0, deleted |-> 0, conflicts |-> <<>>, errors |-> <<>>]

IdleSync ==
  [pc |-> "idle", strategy |-> "none", graphEntities |-> <<>>, parsed |-> <<>>,
   resolved |-> <<>>, nonConflicts |-> <<>>, result |-> EmptyResult,
   outcome |-> "none", error |-> NoId]

\* ------------------------------------------------------ the scan root
MaxScans == 2                        \* calls of runScan in a run of SpecScan

ScanPaths == {"a.ts", "b.py"}        \* the source files a root may hold
StorePath == ".btmg/fingerprints.json"
FileContents(path) == IF path = "a.ts" THEN {"v1", "v2"} ELSE {"v1"}
Absent == "absent"
LanguageInputs == {{}, {"typescript"}}   \* {} is languages left undefined

\* a root without files and without store
EmptyRoot ==
  [files |-> [p \in ScanPaths |-> Absent], hasStore |-> FALSE, store |-> <<>>]

EmptyScanResult ==
  [filesDiscovered |-> 0, filesParsed |-> 0, artifactsExtracted |-> 0,
   entitiesUpserted |-> 0, entitiesSkipped |-> 0, relationsCreated |-> 0,
   errors |-> <<>>, dryRun |-> FALSE]

\* of the call before: how it ended, its dryRun and the contents it read
NoCall == [outcome |-> "none", dryRun |-> FALSE, read |-> EmptyRoot.files]

IdleScan ==
  [pc |-> "idle", runs |-> 0, languages |-> {}, read |-> EmptyRoot.files,
   currentFingerprints |-> <<>>, entities |-> <<>>, relations |-> <<>>,
   result |-> EmptyScanResult,
   outcome |-> "none", previous |-> NoCall]

Init ==
  /\ root = EmptyRoot
  /\ scan = IdleScan
  /\ docs = [p \in DocPaths |-> NoDoc]
  /\ sync = IdleSync
  /\ clock = 1
  /\ uuids = 0
  /\ constraint = FALSE
  /\ entities = <<>>
  /\ states = <<>>
  /\ audit = <<>>
  /\ edges = <<>>
  /\ client = [c \in Clients |-> IdleClient]

\* ------------------------------------------------------ store queries
Rank(i, S) == Cardinality({j \in S : j <= i})
\* the rows of a MATCH, in node order
Rows(S) == [k \in 1..Cardinality(S) |-> CHOOSE i \in S : Rank(i, S) = k]

EntityNodes(id) == {i \in DOMAIN entities : entities[i].id = id}

\* MATCH (e:Entity {_id})-[:CURRENT]->(s) WHERE e._deleted_at IS NULL
cypherGetCurrent(id) ==
  {i \in EntityNodes(id) : entities[i].current # NULL /\ entities[i].deletedAt = NULL}

\* getCurrent: null when the query returns no record
getCurrent(id) ==
  IF cypherGetCurrent(id) = {} THEN NULL
  ELSE entities[Rows(cypherGetCurrent(id))[1]].current

\* the states a path of one CURRENT and any number of PREVIOUS links ends at
RECURSIVE Chain(_)
Chain(s) == IF s = NULL THEN {} ELSE {s} \cup Chain(states[s].previous)

\* the match that takes a state up to and including its _valid_to
cypherGetAtTimeClosed(id, timestamp) ==
  {s \in UNION {Chain(entities[i].current) : i \in EntityNodes(id)} :
     /\ states[s].validFrom <= timestamp
     /\ (states[s].validTo = NULL \/ states[s].validTo >= timestamp)}

\* MATCH (e:Entity {_id})-[:CURRENT|PREVIOUS*]->(s) WHERE s._valid_from <= t
\* AND (s._valid_to IS NULL OR s._valid_to > t): the rows before LIMIT 1
cypherGetAtTime(id, timestamp) ==
  {s \in UNION {Chain(entities[i].current) : i \in EntityNodes(id)} :
     /\ states[s].validFrom <= timestamp
     /\ (states[s].validTo = NULL \/ states[s].validTo > timestamp)}

\* an AuditEntry node and, as "node", the Entity node its AUDITED edge comes from
AuditEntry(auditId, entityId, label, action, actor, now, node) ==
  [id |-> auditId, entityId |-> entityId, label |-> label, action |-> action,
   actor |-> actor, timestamp |-> now, node |-> node]

\* ------------------------------------------------- write transactions
\* cypherCreateEntity: Entity + first State + CURRENT + AuditEntry
NewEntity(r, actor) ==
  [id |-> r.id, label |-> r.label, createdAt |-> r.now, deletedAt |-> NULL,
   deletedBy |-> "none", current |-> Len(states) + 1]

FirstState(r, actor) ==
  [entityId |-> r.id, validFrom |-> r.now, validTo |-> NULL, recordedAt |-> r.now,
   version |-> 1, actor |-> actor, props |-> r.props, previous |-> NULL]

\* the uniqueness constraint on Entity._id rejects the whole transaction
CreateRejected(r) == constraint /\ EntityNodes(r.id) # {}

cypherCreateEntity(r, actor) ==
  /\ entities' = Append(entities, NewEntity(r, actor))
  /\ states' = Append(states, FirstState(r, actor))
  /\ audit' = Append(audit, AuditEntry(r.auditId, r.id, r.label, "create", actor, r.now,
                                     Len(entities) + 1))
  /\ UNCHANGED edges

\* cypherUpdateEntity: one row per Entity node of the id that has a CURRENT
UpdateRows(id) == {i \in EntityNodes(id) : entities[i].current # NULL}

NextState(r, actor, old) ==
  [entityId |-> r.id, validFrom |-> r.now, validTo |-> NULL, recordedAt |-> r.now,
   version |-> states[old].version + 1, actor |-> actor, props |-> r.props,
   previous |-> old]

cypherUpdateEntity(r, actor) ==
  LET rows == UpdateRows(r.id)
      seq == Rows(rows)
      heads == {entities[i].current : i \in rows}
  IN /\ states' =
          [j \in 1..Len(states) |->
             IF j \in heads THEN [states[j] EXCEPT !.validTo = r.now] ELSE states[j]]
          \o [k \in 1..Len(seq) |-> NextState(r, actor, entities[seq[k]].current)]
     /\ entities' =
          [i \in 1..Len(entities) |->
             IF i \in rows
             THEN [entities[i] EXCEPT !.current = Len(states) + Rank(i, rows)]
             ELSE entities[i]]
     /\ audit' = audit \o
          [k \in 1..Len(seq) |->
             AuditEntry(r.auditId, r.id, entities[seq[k]].label, "update", actor, r.now,
                        seq[k])]
     /\ UNCHANGED edges

\* cypherDeleteEntity: closes the head and stamps the entity, one row per
\* Entity node of the id that has a CURRENT, deleted before or not
DeleteRows(id) == {i \in EntityNodes(id) : entities[i].current # NULL}

cypherDeleteEntity(r, actor) ==
  LET rows == DeleteRows(r.id)
      seq == Rows(rows)
      heads == {entities[i].current : i \in rows}
  IN /\ states' =
          [j \in 1..Len(states) |->
             IF j \in heads THEN [states[j] EXCEPT !.validTo = r.now] ELSE states[j]]
     /\ entities' =
          [i \in 1..Len(entities) |->
             IF i \in rows
             THEN [entities[i] EXCEPT !.deletedAt = r.now, !.deletedBy = actor]
             ELSE entities[i]]
     /\ audit' = audit \o
          [k \in 1..Len(seq) |->
             AuditEntry(r.auditId, r.id, entities[seq[k]].label, "delete", actor, r.now,
                        seq[k])]
     /\ UNCHANGED edges

\* cypherRelate: one edge per pair of matched Entity nodes
RelateRows(fromId, toId) == EntityNodes(fromId) \X EntityNodes(toId)

PairRank(p, S) ==
  Cardinality({q \in S : q[1] < p[1] \/ (q[1] = p[1] /\ q[2] <= p[2])})
PairRows(S) == [k \in 1..Cardinality(S) |-> CHOOSE p \in S : PairRank(p, S) = k]

NewEdge(r, actor, pair) ==
  [from |-> pair[1], to |-> pair[2], type |-> r.type, createdAt |-> r.now,
   validFrom |-> r.now, validTo |-> NULL, actor |-> actor, props |-> r.props]

cypherRelate(r, actor) ==
  LET seq == PairRows(RelateRows(r.id, r.toId))
  IN /\ edges' = edges \o [k \in 1..Len(seq) |-> NewEdge(r, actor, seq[k])]
     /\ audit' = audit \o
          [k \in 1..Len(seq) |->
             AuditEntry(r.auditId, r.id, entities[seq[k][1]].label, "relate", actor, r.now,
                        seq[k][1])]
     /\ UNCHANGED <<entities, states>>

\* the match without the relationship type
UnrelateRowsAnyType(fromId, toId, type) ==
  {e \in DOMAIN edges :
     /\ entities[edges[e].from].id = fromId
     /\ entities[edges[e].to].id = toId
     /\ edges[e].validTo = NULL}

\* cypherUnrelate: every active edge of the type between the two ids
UnrelateRows(fromId, toId, type) ==
  {e \in DOMAIN edges :
     /\ edges[e].type = type
     /\ entities[edges[e].from].id = fromId
     /\ entities[edges[e].to].id = toId
     /\ edges[e].validTo = NULL}

cypherUnrelate(r, actor) ==
  LET rows == UnrelateRows(r.id, r.toId, r.type)
      seq == Rows(rows)
  IN /\ edges' =
          [e \in 1..Len(edges) |->
             IF e \in rows THEN [edges[e] EXCEPT !.validTo = r.now] ELSE edges[e]]
     /\ audit' = audit \o
          [k \in 1..Len(seq) |->
             AuditEntry(r.auditId, r.id, entities[edges[seq[k]].from].label,
                        "unrelate", actor, r.now, edges[seq[k]].from)]
     /\ UNCHANGED <<entities, states>>

\* ------------------------------------------------------------ the clock
Tick ==
  /\ clock < MaxClock
  /\ clock' = clock + 1
  /\ UNCHANGED <<uuids, constraint, entities, states, audit, edges, client, tools>>

\* applyMigrations: CREATE CONSTRAINT entity_id_unique; the store refuses
\* it while two Entity nodes share an _id
applyMigrations ==
  /\ ~constraint
  /\ \A i, j \in DOMAIN entities : entities[i].id = entities[j].id => i = j
  /\ constraint' = TRUE
  /\ UNCHANGED <<clock, uuids, entities, states, audit, edges, client, tools>>

\* --------------------------------------------------------------- upsert
\* upsert returns {id, version, created} or throws out of its transaction:
\* the client keeps the id of the call and how it ended
Done(c, outcome, version) ==
  client' = [client EXCEPT ![c] =
    [IdleClient EXCEPT !.id = client[c].id, !.outcome = outcome, !.version = version]]

\* delete, relate and unrelate return nothing
Finish(c, outcome) ==
  client' = [client EXCEPT ![c] = [IdleClient EXCEPT !.outcome = outcome]]

\* a call that throws before it reaches the store
Throw(c, error) == Finish(c, error)

\* crud.ts upsert, up to the await of getCurrent
UpsertStart(c, label, id, props) ==
  /\ client[c].pc = "idle"
  /\ uuids < MaxOps
  /\ LET call == [IdleClient EXCEPT !.op = "upsert", !.label = label]
     IN IF ~hasNodeLabel(label)
        THEN /\ Throw(c, "UnknownLabel")
             /\ UNCHANGED uuids
        ELSE IF ~SchemaAccepts(NodeDefs[label], props)
        THEN /\ Throw(c, "ValidationError")
             /\ UNCHANGED uuids
        ELSE LET drawn == IF id = NoId THEN 2 ELSE 1
                 entityId == IF id = NoId THEN UuidBase + uuids + 1 ELSE id
             IN /\ uuids' = uuids + drawn
                /\ client' = [client EXCEPT ![c] =
                     [call EXCEPT !.pc = "getCurrent", !.id = entityId,
                                  !.props = SchemaData(NodeDefs[label], props),
                                  !.now = clock, !.auditId = UuidBase + uuids + drawn]]
  /\ UNCHANGED <<clock, constraint, entities, states, audit, edges, tools>>

\* the read transaction of getCurrent
UpsertGetCurrent(c) ==
  /\ client[c].pc = "getCurrent"
  /\ client' = [client EXCEPT ![c].pc = "upsertWrite",
                              ![c].isCreate = (getCurrent(client[c].id) = NULL)]
  /\ UNCHANGED <<clock, uuids, constraint, entities, states, audit, edges, tools>>

\* the write transaction of upsert and its return value
UpsertWrite(c) ==
  LET r == client[c] IN
  /\ r.pc = "upsertWrite"
  /\ IF r.isCreate
     THEN IF ~sanitizeOk(r.label)
          THEN /\ Done(c, "InvalidIdentifier", 0)
               /\ UNCHANGED <<entities, states, audit, edges>>
          ELSE IF CreateRejected(r)
          THEN /\ Done(c, "ConstraintError", 0)
               /\ UNCHANGED <<entities, states, audit, edges>>
          ELSE /\ cypherCreateEntity(r, c)
               /\ Done(c, "created", 1)
     ELSE IF UpdateRows(r.id) = {}
          THEN /\ Done(c, "TypeError", 0)
               /\ UNCHANGED <<entities, states, audit, edges>>
          ELSE /\ cypherUpdateEntity(r, c)
               /\ Done(c, "updated",
                       states[entities[Rows(UpdateRows(r.id))[1]].current].version + 1)
  /\ UNCHANGED <<clock, uuids, constraint, tools>>

\* --------------------------------------------------------------- delete
RemoveStart(c, id) ==
  /\ client[c].pc = "idle"
  /\ uuids < MaxOps
  /\ uuids' = uuids + 1
  /\ client' = [client EXCEPT ![c] =
       [IdleClient EXCEPT !.pc = "removeWrite", !.op = "delete", !.id = id,
                          !.now = clock, !.auditId = UuidBase + uuids + 1]]
  /\ UNCHANGED <<clock, constraint, entities, states, audit, edges, tools>>

RemoveWrite(c) ==
  /\ client[c].pc = "removeWrite"
  /\ cypherDeleteEntity(client[c], c)
  /\ Finish(c, "deleted")
  /\ UNCHANGED <<clock, uuids, constraint, tools>>

\* --------------------------------------------------------------- relate
RelateStart(c, fromId, toId, type, fromLabel, toLabel, properties) ==
  /\ client[c].pc = "idle"
  /\ uuids < MaxOps
  /\ LET call == [IdleClient EXCEPT !.op = "relate", !.id = fromId, !.toId = toId,
                                    !.type = type, !.props = properties.props]
         defs == EdgeDefFor(fromLabel, type, toLabel)
     IN IF defs = {}
        THEN /\ Throw(c, "UnknownEdge")
             /\ UNCHANGED uuids
        ELSE IF properties.defined
                /\ ~EdgeAccepts(CHOOSE d \in defs : TRUE, properties.props)
        THEN /\ Throw(c, "ValidationError")
             /\ UNCHANGED uuids
        ELSE /\ uuids' = uuids + 1
             /\ client' = [client EXCEPT ![c] =
                  [call EXCEPT !.pc = "relateWrite", !.now = clock,
                               !.auditId = UuidBase + uuids + 1]]
  /\ UNCHANGED <<clock, constraint, entities, states, audit, edges, tools>>

RelateWrite(c) ==
  /\ client[c].pc = "relateWrite"
  /\ IF ~sanitizeOk(client[c].type)
     THEN /\ Finish(c, "InvalidIdentifier")
          /\ UNCHANGED <<entities, states, audit, edges>>
     ELSE /\ cypherRelate(client[c], c)
          /\ Finish(c, "related")
  /\ UNCHANGED <<clock, uuids, constraint, tools>>

\* ------------------------------------------------------------- unrelate
UnrelateStart(c, fromId, toId, type) ==
  /\ client[c].pc = "idle"
  /\ uuids < MaxOps
  /\ uuids' = uuids + 1
  /\ client' = [client EXCEPT ![c] =
       [IdleClient EXCEPT !.pc = "unrelateWrite", !.op = "unrelate", !.id = fromId,
                          !.toId = toId, !.type = type, !.now = clock,
                          !.auditId = UuidBase + uuids + 1]]
  /\ UNCHANGED <<clock, constraint, entities, states, audit, edges, tools>>

UnrelateWrite(c) ==
  /\ client[c].pc = "unrelateWrite"
  /\ IF ~sanitizeOk(client[c].type)
     THEN /\ Finish(c, "InvalidIdentifier")
          /\ UNCHANGED <<entities, states, audit, edges>>
     ELSE /\ cypherUnrelate(client[c], c)
          /\ Finish(c, "unrelated")
  /\ UNCHANGED <<clock, uuids, constraint, tools>>

\* ------------------------------------------------------------ getAtTime
\* one read transaction; LIMIT 1 without ORDER BY returns any one of the rows
GetAtTime(c, id, timestamp) ==
  /\ client[c].pc = "idle"
  /\ LET rows == cypherGetAtTime(id, timestamp)
         read == [IdleClient EXCEPT !.id = id, !.now = timestamp]
     IN IF rows = {}
        THEN client' = [client EXCEPT ![c] = [read EXCEPT !.outcome = "null"]]
        ELSE \E s \in rows :
               client' = [client EXCEPT ![c] =
                 [read EXCEPT !.outcome = "state", !.result = s]]
  /\ UNCHANGED <<clock, uuids, constraint, entities, states, audit, edges, tools>>

\* ----------------------------------------------------- sync: the reads
\* registry.getNodeLabels(), in the order of the schema
NodeLabels == <<"Person", "Project", "Observation">>

\* MATCH (e:Entity:label)-[:CURRENT]->(s) WHERE e._deleted_at IS NULL AND
\* s._valid_to IS NULL
cypherQueryByLabel(label) ==
  {i \in DOMAIN entities :
     /\ entities[i].label = label
     /\ entities[i].deletedAt = NULL
     /\ entities[i].current # NULL
     /\ states[entities[i].current].validTo = NULL}

EntityWithState(i) ==
  [id |-> entities[i].id, label |-> entities[i].label,
   version |-> states[entities[i].current].version,
   props |-> states[entities[i].current].props]

queryByLabel(label) ==
  LET seq == Rows(cypherQueryByLabel(label))
  IN [k \in 1..Len(seq) |-> EntityWithState(seq[k])]

\* (await Promise.all(targetLabels.map(queryByLabel))).flat()
RECURSIVE FlatQuery(_)
FlatQuery(n) == IF n = 0 THEN <<>> ELSE FlatQuery(n - 1) \o queryByLabel(NodeLabels[n])
GraphEntities == FlatQuery(Len(NodeLabels))

\* glob(pattern): the files of the directory, in an order glob does not fix
GlobOrders ==
  LET present == {p \in DocPaths : docs[p] # NoDoc}
  IN {f \in [1..Cardinality(present) -> present] :
        \A j, k \in DOMAIN f : f[j] = f[k] => j = k}

\* parseDocs: one ParsedDoc per file
parseDocs(files) ==
  [k \in 1..Len(files) |-> [filePath |-> files[k], frontmatter |-> docs[files[k]]]]

\* extractProperties / stripMeta: the keys without "_"
extractProperties(frontmatter) == frontmatter.props

\* new Map(items.map(x => [id, x])): keys in the order they first appear,
\* each with the value that came last
MapKeys(ids) ==
  LET first == {k \in DOMAIN ids : \A j \in 1..(k - 1) : ids[j] # ids[k]}
      seq == Rows(first)
  IN [n \in 1..Len(seq) |-> ids[seq[n]]]
MapGet(ids, id) == CHOOSE k \in DOMAIN ids : ids[k] = id /\ \A j \in DOMAIN ids : ids[j] = id => j <= k
MapHas(ids, id) == \E k \in DOMAIN ids : ids[k] = id

\* ----------------------------------------------------- sync: the differ
Change(type, entityId, label, gDef, gProps, dDef, dProps, filePath, gHash, dHash) ==
  [type |-> type, entityId |-> entityId, label |-> label,
   graphDefined |-> gDef, graphProperties |-> gProps,
   docDefined |-> dDef, docProperties |-> dProps,
   filePath |-> filePath, graphHash |-> gHash, docHash |-> dHash]

\* the differ that takes a hash mismatch for an edit of the document
ChangeTypeNoConflict(graphHash, docHash, graphProps, docProps) ==
  IF graphProps # docProps THEN "update" ELSE "none"

\* the differ that takes no notice of an edit of the document
ChangeTypeNoUpdate(graphHash, docHash, graphProps, docProps) ==
  IF graphHash = docHash THEN "none" ELSE "conflict"

\* differ.ts: both sides exist
ChangeType(graphHash, docHash, graphProps, docProps) ==
  IF graphHash = docHash
  THEN IF graphProps # docProps THEN "update" ELSE "none"
  ELSE "conflict"

computeChanges(graphEntities, parsed) ==
  LET gIds == [k \in DOMAIN graphEntities |-> graphEntities[k].id]
      dIds == [k \in DOMAIN parsed |-> parsed[k].frontmatter.id]
      gKeys == MapKeys(gIds)
      dKeys == MapKeys(dIds)
      entity(id) == graphEntities[MapGet(gIds, id)]
      doc(id) == parsed[MapGet(dIds, id)]
      graphOnly == SelectSeq(gKeys, LAMBDA id : ~MapHas(dIds, id))
      docOnly == SelectSeq(dKeys, LAMBDA id : ~MapHas(gIds, id))
      both == SelectSeq(gKeys, LAMBDA id : MapHas(dIds, id))
      bothChange(id) ==
        LET graphHash == computeSyncHash(entity(id).props)
            docHash == doc(id).frontmatter.hash
            graphProps == entity(id).props
            docProps == extractProperties(doc(id).frontmatter)
        IN Change(ChangeType(graphHash, docHash, graphProps, docProps), id,
                  entity(id).label, TRUE, graphProps, TRUE, docProps,
                  doc(id).filePath,
                  IF graphHash = docHash THEN NoHash ELSE graphHash,
                  IF graphHash = docHash THEN NoHash ELSE docHash)
  IN [k \in DOMAIN graphOnly |->
        Change("create", graphOnly[k], entity(graphOnly[k]).label, TRUE,
               entity(graphOnly[k]).props, FALSE, {}, NoPath, NoHash, NoHash)]
     \o [k \in DOMAIN docOnly |->
        Change("create", docOnly[k], doc(docOnly[k]).frontmatter.label, FALSE, {},
               TRUE, extractProperties(doc(docOnly[k]).frontmatter),
               doc(docOnly[k]).filePath, NoHash, NoHash)]
     \o SelectSeq([k \in DOMAIN both |-> bothChange(both[k])],
                  LAMBDA c : c.type # "none")

\* -------------------------------------------- sync: conflict resolution
ConflictRecord(change, strategy) ==
  [entityId |-> change.entityId, label |-> change.label,
   graphHash |-> change.graphHash, docHash |-> change.docHash,
   resolution |-> strategy]

\* {...graphProperties, ...docProperties}
MergeProps(graphProps, docProps) ==
  docProps \cup {p \in graphProps : p[1] \notin Keys(docProps)}

ResolvedChange(change, properties, target, strategy) ==
  [entityId |-> change.entityId, label |-> change.label, properties |-> properties,
   target |-> target, conflict |-> ConflictRecord(change, strategy)]

\* graph-wins resolved towards the graph
resolveConflictToGraph(change, strategy) ==
  CASE strategy = "graph-wins" ->
         ResolvedChange(change, change.graphProperties, "graph", strategy)
    [] strategy = "docs-wins" ->
         ResolvedChange(change, change.docProperties, "graph", strategy)
    [] strategy = "merge" ->
         ResolvedChange(change, MergeProps(change.graphProperties, change.docProperties),
                        "graph", strategy)

\* merge with the graph's value winning on a key of both sides
resolveConflictGraphFirst(change, strategy) ==
  CASE strategy = "graph-wins" ->
         ResolvedChange(change, change.graphProperties, "docs", strategy)
    [] strategy = "docs-wins" ->
         ResolvedChange(change, change.docProperties, "graph", strategy)
    [] strategy = "merge" ->
         ResolvedChange(change, MergeProps(change.docProperties, change.graphProperties),
                        "graph", strategy)

\* resolveConflict for the strategies that return; "fail" throws
resolveConflict(change, strategy) ==
  CASE strategy = "graph-wins" ->
         ResolvedChange(change, change.graphProperties, "docs", strategy)
    [] strategy = "docs-wins" ->
         ResolvedChange(change, change.docProperties, "graph", strategy)
    [] strategy = "merge" ->
         ResolvedChange(change, MergeProps(change.graphProperties, change.docProperties),
                        "graph", strategy)

Conflicts(changes) == SelectSeq(changes, LAMBDA c : c.type = "conflict")

\* resolveConflicts throws at the first conflict under "fail"
resolveThrows(changes, strategy) == strategy = "fail" /\ Conflicts(changes) # <<>>

resolveConflicts(changes, strategy) ==
  [resolved |->
     [k \in DOMAIN Conflicts(changes) |-> resolveConflict(Conflicts(changes)[k], strategy)],
   nonConflicts |-> SelectSeq(changes, LAMBDA c : c.type # "conflict")]

\* -------------------------------------------------- sync: upsert, remove
\* crud.ts upsert run without another call in between: what it throws
upsertError(label, id, props) ==
  IF ~hasNodeLabel(label) THEN "UnknownLabel"
  ELSE IF ~SchemaAccepts(NodeDefs[label], props) THEN "ValidationError"
  ELSE IF getCurrent(id) = NULL
  THEN IF ~sanitizeOk(label) THEN "InvalidIdentifier"
       ELSE IF CreateRejected([id |-> id]) THEN "ConstraintError"
       ELSE "none"
  ELSE "none"

\* and what it writes
upsert(label, id, props, actor) ==
  LET error == upsertError(label, id, props) IN
  IF error \in {"UnknownLabel", "ValidationError"}
  THEN UNCHANGED <<uuids, entities, states, audit, edges>>
  ELSE LET r == [id |-> id, label |-> label, props |-> SchemaData(NodeDefs[label], props),
                 now |-> clock, auditId |-> UuidBase + uuids + 1]
       IN /\ uuids' = uuids + 1
          /\ IF error # "none"
             THEN UNCHANGED <<entities, states, audit, edges>>
             ELSE IF getCurrent(id) = NULL
             THEN cypherCreateEntity(r, actor)
             ELSE cypherUpdateEntity(r, actor)

\* crud.ts remove
remove(id, actor) ==
  /\ uuids' = uuids + 1
  /\ cypherDeleteEntity([id |-> id, now |-> clock, auditId |-> UuidBase + uuids + 1], actor)

\* ------------------------------------------------------- sync: the run
SyncActor == "btmg-sync"

SyncError(entityId, file, message) ==
  [entityId |-> entityId, file |-> file, message |-> message]

\* steps 1 to 4: load the graph and the docs, compute the changes, resolve
\* the conflicts; under "fail" the first conflict ends the call
SyncStart(strategy, files) ==
  /\ sync.pc = "idle" /\ sync.outcome = "none"
  /\ LET graphEntities == GraphEntities
         parsed == parseDocs(files)
         changes == computeChanges(graphEntities, parsed)
         call == [IdleSync EXCEPT !.strategy = strategy,
                                  !.graphEntities = graphEntities, !.parsed = parsed]
     IN IF resolveThrows(changes, strategy)
        THEN sync' = [call EXCEPT !.outcome = "ConflictError",
                                  !.error = Conflicts(changes)[1].entityId]
        ELSE sync' = [call EXCEPT
                        !.pc = "apply",
                        !.resolved = resolveConflicts(changes, strategy).resolved,
                        !.nonConflicts = resolveConflicts(changes, strategy).nonConflicts]
  /\ UNCHANGED <<clock, uuids, constraint, entities, states, audit, edges, client, docs,
               root, scan>>

\* step 5: one resolved conflict
SyncApplyResolved ==
  /\ sync.pc = "apply" /\ sync.resolved # <<>>
  /\ LET res == Head(sync.resolved)
         error == upsertError(res.label, res.entityId, res.properties)
         rest == [sync EXCEPT !.resolved = Tail(sync.resolved)]
     IN IF res.target = "graph"
        THEN /\ upsert(res.label, res.entityId, res.properties, SyncActor)
             /\ IF error = "none"
                THEN sync' = [rest EXCEPT
                       !.result.updated = @ + 1,
                       !.result.conflicts = Append(@, res.conflict)]
                ELSE sync' = [rest EXCEPT
                       !.result.errors = Append(@, SyncError(res.entityId, NoPath, error))]
        ELSE /\ sync' = [rest EXCEPT !.result.conflicts = Append(@, res.conflict)]
             /\ UNCHANGED <<uuids, entities, states, audit, edges>>
  /\ UNCHANGED <<clock, constraint, client, docs, root, scan>>

\* step 6: one change that is no conflict
SyncApplyChange ==
  /\ sync.pc = "apply" /\ sync.resolved = <<>> /\ sync.nonConflicts # <<>>
  /\ LET change == Head(sync.nonConflicts)
         error == upsertError(change.label, change.entityId, change.docProperties)
         rest == [sync EXCEPT !.nonConflicts = Tail(sync.nonConflicts)]
         failed == [rest EXCEPT
                      !.result.errors =
                        Append(@, SyncError(change.entityId, change.filePath, error))]
     IN IF change.type = "create" /\ change.docDefined
        THEN /\ upsert(change.label, change.entityId, change.docProperties, SyncActor)
             /\ sync' = IF error = "none"
                        THEN [rest EXCEPT !.result.created = @ + 1] ELSE failed
        ELSE IF change.type = "update" /\ change.docDefined
        THEN /\ upsert(change.label, change.entityId, change.docProperties, SyncActor)
             /\ sync' = IF error = "none"
                        THEN [rest EXCEPT !.result.updated = @ + 1] ELSE failed
        ELSE IF change.type = "delete"
        THEN /\ remove(change.entityId, SyncActor)
             /\ sync' = [rest EXCEPT !.result.deleted = @ + 1]
        ELSE /\ sync' = rest
             /\ UNCHANGED <<uuids, entities, states, audit, edges>>
  /\ UNCHANGED <<clock, constraint, client, docs, root, scan>>

\* renderFrontmatter of the default template
renderFrontmatter(entity) ==
  Doc(entity.id, entity.label, computeSyncHash(entity.props), entity.version, entity.props)

\* writeDocs: every entity of the graph to the path of the pattern
writeDocs(allEntities) ==
  [p \in DocPaths |->
     LET writes == {k \in DOMAIN allEntities :
                      resolveFilePattern(allEntities[k].label, allEntities[k].id) = p}
     IN IF writes = {} THEN docs[p]
        ELSE renderFrontmatter(allEntities[CHOOSE k \in writes : \A j \in writes : j <= k])]

\* step 7: re-render the graph to the docs directory, and return
SyncRender ==
  /\ sync.pc = "apply" /\ sync.resolved = <<>> /\ sync.nonConflicts = <<>>
  /\ docs' = writeDocs(GraphEntities)
  /\ sync' = [sync EXCEPT !.pc = "idle", !.outcome = "returned"]
  /\ UNCHANGED <<clock, uuids, constraint, entities, states, audit, edges, client,
               root, scan>>

\* ------------------------------------------------------ scan: discover
\* EXT_TO_LANGUAGE and BASENAME_TO_LANGUAGE, for the paths of the model
detectLanguage(path) ==
  CASE path = "a.ts" -> "typescript"
    [] path = "b.py" -> "python"
    [] OTHER -> "generic"

\* a discovery that excludes no directory
ExcludedNone(path) == FALSE

\* DEFAULT_EXCLUDES: of the paths of the model, "**/.btmg/**" takes the store
Excluded(path) == path = StorePath

Exists(path) == IF path = StorePath THEN root.hasStore ELSE root.files[path] # Absent

\* glob(includes, {ignore: excludes, dot: true}): every path of the model
\* matches a default include ("**/*.ts", "**/*.py", "**/*.json")
glob == {p \in ScanPaths \cup {StorePath} : Exists(p) /\ ~Excluded(p)}

readFileSync(path) ==
  IF path = StorePath THEN <<"json", root.store>> ELSE <<"text", root.files[path]>>

\* fingerprint.ts; size is a function of the content and is left out
computeFingerprint(relativePath, content) ==
  [relativePath |-> relativePath, hash |-> <<"sha256", content>>, recordedAt |-> clock]

\* null when the root has no store
loadFingerprints == [defined |-> root.hasStore, store |-> root.store]

diffFingerprints(previous, current) ==
  [changed |-> {path \in DOMAIN current :
                  path \in DOMAIN previous /\ previous[path].hash # current[path].hash},
   added |-> {path \in DOMAIN current : path \notin DOMAIN previous},
   removed |-> {path \in DOMAIN previous : path \notin DOMAIN current}]

discoverFiles(languages, previousFingerprints) ==
  LET rawPaths == glob
      currentFingerprints ==
        [path \in rawPaths |-> computeFingerprint(path, readFileSync(path))]
      allDiscovered ==
        {path \in rawPaths : languages = {} \/ detectLanguage(path) \in languages}
      diff == diffFingerprints(previousFingerprints.store, currentFingerprints)
  IN IF previousFingerprints.defined
     THEN [files |-> {path \in allDiscovered : path \in diff.changed \cup diff.added},
           changed |-> diff.changed, removed |-> diff.removed,
           currentFingerprints |-> currentFingerprints]
     ELSE [files |-> allDiscovered, changed |-> {}, removed |-> {},
           currentFingerprints |-> currentFingerprints]

\* --------------------------------------------------- scan: parse and map
Artifact(kind, name, filePath, refs) ==
  [kind |-> kind, name |-> name, filePath |-> filePath, refs |-> refs]

\* parser.parse(file, content): parseTsJs gives the file artifact, with a
\* ref for the import of "b.py", and one artifact for each export (a.ts
\* exports function f, its second content also function g), parsePython the
\* file artifact of b.py and its class C, parseJsonFallback a config_key of
\* a JSON file
ParserOutput(path, content) ==
  LET imports == {[kind |-> "imports", target |-> "b.py"]}
  IN CASE path = "a.ts" /\ content = <<"text", "v1">> ->
            <<Artifact("file", path, path, imports), Artifact("function", "f", path, {})>>
       [] path = "a.ts" /\ content = <<"text", "v2">> ->
            <<Artifact("file", path, path, imports), Artifact("function", "f", path, {}),
              Artifact("function", "g", path, {})>>
       [] path = "b.py" ->
            <<Artifact("file", path, path, {}), Artifact("class", "C", path, {})>>
       [] OTHER -> <<Artifact("config_key", "fingerprints.json", path, {})>>

\* the files in the order glob returned them
InOrder(files) ==
  SelectSeq(<<"a.ts", "b.py", StorePath>>, LAMBDA path : path \in files)

RECURSIVE Flatten(_)
Flatten(seqs) == IF seqs = <<>> THEN <<>> ELSE Head(seqs) \o Flatten(Tail(seqs))

\* every language of the model has a built-in parser
parseFiles(files, languages) ==
  LET kept == SelectSeq(InOrder(files),
                        LAMBDA path : languages = {} \/ detectLanguage(path) \in languages)
  IN Flatten([k \in DOMAIN kept |-> ParserOutput(kept[k], readFileSync(kept[k]))])

\* scan.mappings of the configuration: a file becomes a Project and a
\* function a Person, named after the artifact; the rule for classes forgets
\* the name a Person requires; no rule takes a config_key
ScanMappings ==
  <<[artifact |-> "file", label |-> "Project", properties |-> {<<"name", "name">>}],
    [artifact |-> "function", label |-> "Person", properties |-> {<<"name", "name">>}],
    [artifact |-> "class", label |-> "Person", properties |-> {}]>>

\* the first mapping of the artifact's kind, 0 when there is none
findMapping(artifact) ==
  LET fits == {k \in DOMAIN ScanMappings : ScanMappings[k].artifact = artifact.kind}
  IN IF fits = {} THEN 0 ELSE CHOOSE k \in fits : \A j \in fits : k <= j

\* the first 32 hex digits of sha256("root:path:kind:name")
generateEntityId(relativePath, kind, name) ==
  CASE <<relativePath, kind, name>> = <<"a.ts", "file", "a.ts">> -> 1
    [] <<relativePath, kind, name>> = <<"b.py", "file", "b.py">> -> 2
    [] <<relativePath, kind, name>> = <<"a.ts", "function", "f">> -> 3
    [] <<relativePath, kind, name>> = <<"a.ts", "function", "g">> -> 4
    [] OTHER -> 5

MappedEntity(artifact, mapping) ==
  [id |-> generateEntityId(artifact.filePath, artifact.kind, artifact.name),
   label |-> mapping.label,
   properties |-> {<<m[1], artifact[m[2]]>> : m \in mapping.properties},
   artifact |-> artifact]

mapArtifacts(artifacts) ==
  LET mapped(a) == findMapping(a) # 0 /\ hasNodeLabel(ScanMappings[findMapping(a)].label)
      hits == SelectSeq(artifacts, mapped)
  IN [entities |-> [k \in DOMAIN hits |->
                      MappedEntity(hits[k], ScanMappings[findMapping(hits[k])])],
      unmapped |-> SelectSeq(artifacts, LAMBDA a : ~mapped(a))]

\* ----------------------------------------------------- scan: ingest
\* pass 2 of ingestEntities, before its calls: for each ref of each entity
\* (an artifact of the model has one ref at most) the relationship type of
\* REF_KIND_TO_RELATION and the entity of this scan that resolveRefTarget
\* finds, by artifact name first and by file path then
PendingRelations(mapped) ==
  LET named(t) == {k \in DOMAIN mapped : mapped[k].artifact.name = t}
      filed(t) == {k \in DOMAIN mapped : /\ mapped[k].artifact.kind = "file"
                                          /\ mapped[k].artifact.filePath = t}
      found(t) == IF named(t) # {} THEN named(t) ELSE filed(t)
      ref(e) == CHOOSE r \in e.artifact.refs : TRUE
      resolves(e) == /\ e.artifact.refs # {}
                     /\ ref(e).kind \in {"imports"}
                     /\ found(ref(e).target) # {}
      to(e) == mapped[CHOOSE k \in found(ref(e).target) :
                        \A j \in found(ref(e).target) : k <= j]
      from == SelectSeq(mapped, resolves)
  IN [k \in DOMAIN from |->
        [fromId |-> from[k].id, toId |-> to(from[k]).id, type |-> "IMPORTS",
         fromLabel |-> from[k].label, toLabel |-> to(from[k]).label]]

\* crud.ts relate without properties, as one step
relate(fromId, toId, type, fromLabel, toLabel, actor) ==
  IF ~hasEdgeType(fromLabel, type, toLabel)
  THEN UNCHANGED <<uuids, entities, states, audit, edges>>
  ELSE /\ uuids' = uuids + 1
       /\ IF ~sanitizeOk(type)
          THEN UNCHANGED <<entities, states, audit, edges>>
          ELSE cypherRelate([id |-> fromId, toId |-> toId, type |-> type, props |-> {},
                             now |-> clock, auditId |-> UuidBase + uuids + 1], actor)

\* ------------------------------------------------------- scan: the run
ScanActor == "btmg-scanner"

ScanError(entity, message) ==
  [file |-> entity.artifact.filePath, artifactName |-> entity.artifact.name,
   message |-> message]

saveFingerprints(fingerprints) ==
  [root EXCEPT !.hasStore = TRUE, !.store = fingerprints]

\* a scan that saves the store in a dry run too
persistAlways(dryRun, fingerprints) == saveFingerprints(fingerprints)

\* if (!dryRun) saveFingerprints(projectRoot, currentFingerprints)
persist(dryRun, fingerprints) ==
  IF dryRun THEN root ELSE saveFingerprints(fingerprints)

\* runScan of a local path, up to the first await of ingestEntities: load
\* the store, discover, return early when nothing changed or nothing was
\* extracted, parse and map; the ingest of a dry run only counts, has no
\* await and returns here
ScanStart(dryRun, languages) ==
  /\ scan.pc = "idle" /\ scan.runs < MaxScans
  /\ LET discoverResult == discoverFiles(languages, loadFingerprints)
         artifacts == parseFiles(discoverResult.files, languages)
         mapResult == mapArtifacts(artifacts)
         call == [IdleScan EXCEPT
                    !.runs = scan.runs + 1,
                    !.languages = languages,
                    !.read = root.files,
                    !.currentFingerprints = discoverResult.currentFingerprints,
                    !.previous = [outcome |-> scan.outcome, dryRun |-> scan.result.dryRun,
                                  read |-> scan.read],
                    !.result.dryRun = dryRun,
                    !.result.filesDiscovered =
                      Cardinality(DOMAIN discoverResult.currentFingerprints),
                    !.result.filesParsed = Cardinality(discoverResult.files)]
         parsed == [call EXCEPT !.result.artifactsExtracted = Len(artifacts)]
     IN IF discoverResult.files = {} /\ discoverResult.removed = {}
        THEN /\ scan' = [call EXCEPT !.outcome = "returned"]
             /\ root' = persist(dryRun, discoverResult.currentFingerprints)
        ELSE IF artifacts = <<>>
        THEN /\ scan' = [parsed EXCEPT !.outcome = "returned"]
             /\ root' = persist(dryRun, discoverResult.currentFingerprints)
        ELSE IF dryRun
        THEN /\ scan' = [parsed EXCEPT
                           !.outcome = "returned",
                           !.result.entitiesSkipped =
                             Len(mapResult.unmapped) + Len(mapResult.entities),
                           !.result.relationsCreated =
                             Len(PendingRelations(mapResult.entities))]
             /\ root' = persist(dryRun, discoverResult.currentFingerprints)
        ELSE /\ scan' = [parsed EXCEPT
                           !.pc = "ingest",
                           !.entities = mapResult.entities,
                           !.relations = PendingRelations(mapResult.entities),
                           !.result.entitiesSkipped = Len(mapResult.unmapped)]
             /\ root' = root
  /\ UNCHANGED <<clock, uuids, constraint, entities, states, audit, edges, client,
                 docs, sync>>

\* pass 1 of ingestEntities: the upsert of one mapped entity
ScanUpsert ==
  /\ scan.pc = "ingest" /\ scan.entities # <<>>
  /\ LET entity == Head(scan.entities)
         error == upsertError(entity.label, entity.id, entity.properties)
         rest == [scan EXCEPT !.entities = Tail(scan.entities)]
     IN /\ upsert(entity.label, entity.id, entity.properties, ScanActor)
        /\ scan' = IF error = "none"
                   THEN [rest EXCEPT !.result.entitiesUpserted = @ + 1]
                   ELSE [rest EXCEPT
                           !.result.entitiesSkipped = @ + 1,
                           !.result.errors = Append(@, ScanError(entity, error))]
  /\ UNCHANGED <<clock, constraint, client, docs, sync, root>>

\* pass 2 of ingestEntities: the relate of one resolved ref; its errors are
\* dropped
ScanRelate ==
  /\ scan.pc = "ingest" /\ scan.entities = <<>> /\ scan.relations # <<>>
  /\ LET rel == Head(scan.relations)
         rest == [scan EXCEPT !.relations = Tail(scan.relations)]
     IN /\ relate(rel.fromId, rel.toId, rel.type, rel.fromLabel, rel.toLabel, ScanActor)
        /\ scan' = IF hasEdgeType(rel.fromLabel, rel.type, rel.toLabel) /\ sanitizeOk(rel.type)
                   THEN [rest EXCEPT !.result.relationsCreated = @ + 1]
                   ELSE rest
  /\ UNCHANGED <<clock, constraint, client, docs, sync, root>>

\* step 7 saves the store and runScan returns
ScanFinish ==
  /\ scan.pc = "ingest" /\ scan.entities = <<>> /\ scan.relations = <<>>
  /\ root' = persist(scan.result.dryRun, scan.currentFingerprints)
  /\ scan' = [scan EXCEPT !.pc = "idle", !.outcome = "returned"]
  /\ UNCHANGED <<clock, uuids, constraint, entities, states, audit, edges, client,
                 docs, sync>>

\* somebody writes or removes a source file of the root
EditFile(path, content) ==
  /\ root.files[path] # content
  /\ root' = [root EXCEPT !.files[path] = content]
  /\ UNCHANGED <<clock, uuids, constraint, entities, states, audit, edges, client,
                 docs, sync, scan>>

\* ------------------------------------------------------- specifications
UpsertSteps ==
  \/ \E c \in Clients, label \in LabelInputs, id \in Ids \cup {NoId},
        props \in NodePropInputs : UpsertStart(c, label, id, props)
  \/ \E c \in Clients : UpsertGetCurrent(c)
  \/ \E c \in Clients : UpsertWrite(c)

RemoveSteps ==
  \/ \E c \in Clients, id \in Ids : RemoveStart(c, id)
  \/ \E c \in Clients : RemoveWrite(c)

EdgeSteps ==
  \/ \E c \in Clients, fromId \in Ids, toId \in Ids, type \in TypeInputs,
        fromLabel \in EdgeLabelInputs, toLabel \in EdgeLabelInputs,
        properties \in EdgePropInputs :
          RelateStart(c, fromId, toId, type, fromLabel, toLabel, properties)
  \/ \E c \in Clients : RelateWrite(c)
  \/ \E c \in Clients, fromId \in Ids, toId \in Ids, type \in UnrelateTypeInputs :
        UnrelateStart(c, fromId, toId, type)
  \/ \E c \in Clients : UnrelateWrite(c)

\* entities: clients upsert and delete
Next ==
  \/ Tick
  \/ applyMigrations
  \/ UpsertSteps
  \/ RemoveSteps

Spec == Init /\ [][Next]_vars

\* entities on a store that was migrated while it was empty
InitMigrated ==
  /\ root = EmptyRoot
  /\ scan = IdleScan
  /\ docs = [p \in DocPaths |-> NoDoc]
  /\ sync = IdleSync
  /\ clock = 1
  /\ uuids = 0
  /\ constraint = TRUE
  /\ entities = <<>>
  /\ states = <<>>
  /\ audit = <<>>
  /\ edges = <<>>
  /\ client = [c \in Clients |-> IdleClient]

NextMigrated ==
  \/ Tick
  \/ UpsertSteps
  \/ RemoveSteps

SpecMigrated == InitMigrated /\ [][NextMigrated]_vars

\* relationships: clients upsert, relate and unrelate
NextEdges ==
  \/ Tick
  \/ applyMigrations
  \/ \E c \in Clients, label \in {"Person"}, id \in Ids,
        props \in {{<<"name", "sA">>}} : UpsertStart(c, label, id, props)
  \/ \E c \in Clients : UpsertGetCurrent(c)
  \/ \E c \in Clients : UpsertWrite(c)
  \/ EdgeSteps

SpecEdges == Init /\ [][NextEdges]_vars

\* validation: clients only upsert, and at most MaxCalls calls pass validation
NextUpsert ==
  \/ Tick
  \/ applyMigrations
  \/ /\ uuids < MaxCalls
     /\ \E c \in Clients, label \in LabelInputs, id \in Ids \cup {NoId},
           props \in NodePropInputs : UpsertStart(c, label, id, props)
  \/ \E c \in Clients : UpsertGetCurrent(c)
  \/ \E c \in Clients : UpsertWrite(c)

SpecUpsert == Init /\ [][NextUpsert]_vars

\* relationships of one entity: clients upsert id 1, relate it to itself and
\* unrelate it
UnrelateIds == {1}

NextUnrelate ==
  \/ Tick
  \/ \E c \in Clients, id \in UnrelateIds :
        UpsertStart(c, "Person", id, {<<"name", "sA">>})
  \/ \E c \in Clients : UpsertGetCurrent(c)
  \/ \E c \in Clients : UpsertWrite(c)
  \/ \E c \in Clients, id \in UnrelateIds, type \in TypeInputs :
        RelateStart(c, id, id, type, "Person", "Person", [defined |-> FALSE, props |-> {}])
  \/ \E c \in Clients : RelateWrite(c)
  \/ \E c \in Clients, id \in UnrelateIds, type \in UnrelateTypeInputs :
        UnrelateStart(c, id, id, type)
  \/ \E c \in Clients : UnrelateWrite(c)

SpecUnrelate == Init /\ [][NextUnrelate]_vars

\* one client: calls do not overlap
Caller == "alice"

NextSequential ==
  \/ Tick
  \/ applyMigrations
  \/ \E label \in LabelInputs, id \in Ids \cup {NoId}, props \in NodePropInputs :
        UpsertStart(Caller, label, id, props)
  \/ UpsertGetCurrent(Caller)
  \/ UpsertWrite(Caller)
  \/ \E id \in Ids : RemoveStart(Caller, id)
  \/ RemoveWrite(Caller)

SpecSequential == Init /\ [][NextSequential]_vars

\* point-in-time reads: clients upsert and delete id 1 and read it at any time
ReadIds == {1}

NextRead ==
  \/ Tick
  \/ applyMigrations
  \/ \E c \in Clients, id \in ReadIds :
        UpsertStart(c, "Person", id, {<<"name", "sA">>})
  \/ \E c \in Clients : UpsertGetCurrent(c)
  \/ \E c \in Clients : UpsertWrite(c)
  \/ \E c \in Clients, id \in ReadIds : RemoveStart(c, id)
  \/ \E c \in Clients : RemoveWrite(c)
  \/ \E id \in ReadIds, timestamp \in 1..MaxClock :
        GetAtTime(Caller, id, timestamp)

SpecRead == Init /\ [][NextRead]_vars

\* one sync of a docs directory against a graph: the graph holds what
\* upserts of alice at instant 1 left, the directory files written by hand
\* (no _sync_hash) or rendered from an earlier graph state and edited since
NoEntity == [label |-> "none", props |-> {}]
GraphInputs ==
  [SyncIds ->
     {NoEntity,
      [label |-> "Person", props |-> {<<"name", "sA">>}],
      [label |-> "Person", props |-> {<<"name", "sB">>, <<"age", "n1">>}],
      [label |-> "Observation",
       props |-> {<<"type", "note">>, <<"summary", "sA">>, <<"status", "open">>}]}]

SyncDocProps(label) ==
  IF label = "Person"
  THEN {{<<"name", "sA">>}, {<<"name", "sB">>, <<"age", "n1">>}, {}}
  ELSE {{<<"type", "note">>, <<"summary", "sA">>},
        {<<"type", "note">>, <<"summary", "sA">>, <<"status", "open">>},
        {<<"type", "note">>, <<"summary", "sB">>, <<"status", "resolved">>}}
SyncDocHashes(label) ==
  IF label = "Person"
  THEN {NoHash, computeSyncHash({<<"name", "sA">>}),
        computeSyncHash({<<"name", "sB">>, <<"age", "n1">>})}
  ELSE {NoHash,
        computeSyncHash({<<"type", "note">>, <<"summary", "sA">>, <<"status", "open">>})}

\* the label of the files of an id: 1 is a Person, 2 an Observation
SyncLabel(id) == IF id = 1 THEN "Person" ELSE "Observation"

DocInputs(id) ==
  {NoDoc} \cup
  {Doc(id, SyncLabel(id), hash, IF hash = NoHash THEN 0 ELSE 1, props) :
     hash \in SyncDocHashes(SyncLabel(id)), props \in SyncDocProps(SyncLabel(id))}
NotesInputs ==
  {NoDoc} \cup {Doc(1, "Person", NoHash, 0, props) :
                  props \in {{<<"name", "sA">>}, {<<"name", "sB">>, <<"age", "n1">>}}}

InitSync ==
  /\ root = EmptyRoot
  /\ scan = IdleScan
  /\ clock = 1
  /\ constraint \in BOOLEAN
  /\ edges = <<>>
  /\ client = [c \in Clients |-> IdleClient]
  /\ sync = IdleSync
  /\ \E graph \in GraphInputs :
       LET ids == Rows({id \in SyncIds : graph[id] # NoEntity /\ graph[id].label = SyncLabel(id)})
           r(k) == [id |-> ids[k], label |-> graph[ids[k]].label,
                    props |-> graph[ids[k]].props, now |-> 1]
       IN /\ \A id \in SyncIds : graph[id] = NoEntity \/ graph[id].label = SyncLabel(id)
          /\ uuids = Len(ids)
          /\ states = [k \in DOMAIN ids |-> FirstState(r(k), Caller)]
          /\ entities = [k \in DOMAIN ids |-> [NewEntity(r(k), Caller) EXCEPT !.current = k]]
          /\ audit = [k \in DOMAIN ids |->
                        AuditEntry(UuidBase + k, ids[k], r(k).label, "create", Caller, 1, k)]
  /\ \E d1 \in DocInputs(1), d2 \in DocInputs(2), n \in NotesInputs :
       docs = [p \in DocPaths |->
                 IF p = resolveFilePattern(SyncLabel(1), 1) THEN d1
                 ELSE IF p = resolveFilePattern(SyncLabel(2), 2) THEN d2
                 ELSE IF p = NotesPath THEN n
                 ELSE NoDoc]

NextSync ==
  \/ \E strategy \in Strategies, files \in GlobOrders : SyncStart(strategy, files)
  \/ SyncApplyResolved
  \/ SyncApplyChange
  \/ SyncRender

SpecSync == InitSync /\ [][NextSync]_vars

\* scans of one local root whose files somebody edits, on an empty store
NextScan ==
  \/ \E dryRun \in BOOLEAN, languages \in LanguageInputs : ScanStart(dryRun, languages)
  \/ ScanUpsert
  \/ ScanRelate
  \/ ScanFinish
  \/ \E path \in ScanPaths : \E content \in FileContents(path) \cup {Absent} :
       EditFile(path, content)
  \/ Tick

SpecScan == Init /\ [][NextScan]_vars

\* ------------------------------------------------ agent memory queries
\* the calls of one caller after another: crud.ts upsert and remove
MemoryIds == {1, 2}
MemoryLabel(id) == IF id = 1 THEN "Person" ELSE "Project"

CallUpsert(c, id, props) ==
  /\ client[c].pc = "idle"
  /\ uuids < MaxCalls
  /\ upsert(MemoryLabel(id), id, props, c)
  /\ UNCHANGED <<clock, constraint, client, tools>>

CallRemove(c, id) ==
  /\ client[c].pc = "idle"
  /\ uuids < MaxCalls
  /\ remove(id, c)
  /\ UNCHANGED <<clock, constraint, client, tools>>

\* labels or actors left undefined: the parameter is null
NoFilter == {"undefined"}

\* MATCH (e:Entity)-[:AUDITED]->(a:AuditEntry) WHERE a._timestamp > $since
\* AND ($actors IS NULL OR a._actor IN $actors): the entries of one node
AuditsSince(i, since, actors) ==
  {a \in DOMAIN audit :
     /\ audit[a].node = i
     /\ audit[a].timestamp > since
     /\ (actors = NoFilter \/ audit[a].actor \in actors)}

\* max(a._timestamp) AS lastChange
lastChange(i, since, actors) ==
  CHOOSE n \in {audit[a].timestamp : a \in AuditsSince(i, since, actors)} :
    \A a \in AuditsSince(i, since, actors) : audit[a].timestamp <= n

\* ... AND ($labels IS NULL OR e._label IN $labels) AND e._deleted_at IS NULL
\* WITH e, collect(a), max(a._timestamp): one row per Entity node
ChangedNodes(since, labels, actors) ==
  {i \in DOMAIN entities :
     /\ AuditsSince(i, since, actors) # {}
     /\ (labels = NoFilter \/ entities[i].label \in labels)
     /\ entities[i].deletedAt = NULL}

\* ORDER BY lastChange DESC: every order the sort may leave equal rows in
ByLastChange(S, since, actors) ==
  {rows \in [1..Cardinality(S) -> S] :
     /\ \A j, k \in DOMAIN rows : rows[j] = rows[k] => j = k
     /\ \A j, k \in DOMAIN rows :
          j < k => lastChange(rows[j], since, actors) >= lastChange(rows[k], since, actors)}

Take(rows, limit) == SubSeq(rows, 1, IF limit < Len(rows) THEN limit ELSE Len(rows))

\* cypherChangesSince: LIMIT $limit OPTIONAL MATCH (e)-[:CURRENT]->(s)
\* RETURN e, s, audits, lastChange; the record lists it may return
cypherChangesSince(since, labels, actors, limit) ==
  {[k \in DOMAIN Take(rows, limit) |->
      [entity |-> rows[k], state |-> entities[rows[k]].current,
       audits |-> AuditsSince(rows[k], since, actors),
       lastChange |-> lastChange(rows[k], since, actors)]] :
     rows \in ByLastChange(ChangedNodes(since, labels, actors), since, actors)}

DefaultLimit == 100
SinceInputs == 0..(MaxClock - 1)
LabelFilters == {NoFilter, {"Person"}}
ActorFilters == {NoFilter, {"alice"}}
LimitInputs == {1, DefaultLimit}

\* getChangesSince(client, since, {labels, actors, limit})
getChangesSince(c, since, labels, actors, limit) ==
  /\ client[c].pc = "idle"
  /\ \E records \in cypherChangesSince(since, labels, actors, limit) :
       client' = [client EXCEPT ![c] =
         [IdleClient EXCEPT !.op = "changesSince", !.now = since,
                            !.outcome = "returned",
                            !.result = [labels |-> labels, actors |-> actors,
                                        limit |-> limit, records |-> records]]]
  /\ UNCHANGED <<clock, uuids, constraint, entities, states, audit, edges, tools>>

\* snapshotAt, per label: MATCH (e:Entity:label)-[:CURRENT|PREVIOUS*]->(s)
\* WHERE e._deleted_at IS NULL AND s._valid_from <= t AND (s._valid_to IS
\* NULL OR s._valid_to > t) RETURN e, s: every row is pushed
SnapshotRows(label, timestamp) ==
  {<<i, s>> \in (DOMAIN entities) \X (DOMAIN states) :
     /\ entities[i].label = label
     /\ entities[i].deletedAt = NULL
     /\ s \in Chain(entities[i].current)
     /\ states[s].validFrom <= timestamp
     /\ (states[s].validTo = NULL \/ states[s].validTo > timestamp)}

\* the user relationships valid at the timestamp
SnapshotEdges(timestamp) ==
  {e \in DOMAIN edges :
     /\ edges[e].validFrom <= timestamp
     /\ (edges[e].validTo = NULL \/ edges[e].validTo > timestamp)}

\* labels ?? registry.getNodeLabels()
targetLabels(labels) ==
  IF labels = NoFilter THEN {NodeLabels[k] : k \in DOMAIN NodeLabels} ELSE labels

SnapshotTimes == 1..MaxClock

\* snapshotAt(client, registry, timestamp, labels)
snapshotAt(c, timestamp, labels) ==
  /\ client[c].pc = "idle"
  /\ \A label \in targetLabels(labels) : sanitizeOk(label)
  /\ client' = [client EXCEPT ![c] =
       [IdleClient EXCEPT
          !.op = "snapshotAt", !.now = timestamp, !.outcome = "returned",
          !.result =
            [labels |-> labels,
             entities |-> UNION {SnapshotRows(label, timestamp) :
                                   label \in targetLabels(labels)},
             edges |-> SnapshotEdges(timestamp)]]]
  /\ UNCHANGED <<clock, uuids, constraint, entities, states, audit, edges, tools>>

NextMemory ==
  \/ Tick
  \/ \E c \in Clients, id \in MemoryIds : CallUpsert(c, id, {<<"name", "sA">>})
  \/ \E id \in MemoryIds : CallRemove(Caller, id)
  \/ \E since \in SinceInputs, labels \in LabelFilters, actors \in ActorFilters,
        limit \in LimitInputs :
       getChangesSince(Caller, since, labels, actors, limit)
  \/ \E timestamp \in SnapshotTimes, labels \in LabelFilters :
       snapshotAt(Caller, timestamp, labels)

SpecMemory == Init /\ [][NextMemory]_vars

\* ---------------------------------------------------- batch-upsert tool
\* the members a caller may send: {label, id, properties}
BatchMember(label, id, props) == [label |-> label, id |-> id, properties |-> props]

BatchMembers ==
  {BatchMember("Person", 1, {<<"name", "sA">>}),
   BatchMember("Project", 2, {<<"name", "sB">>}),
   BatchMember("Person", 2, {<<"name", "n1">>}),
   BatchMember("Ghost", 1, {<<"name", "sA">>})}

BatchInputs ==
  {<<m>> : m \in BatchMembers} \cup {<<m, n>> : m \in BatchMembers, n \in BatchMembers}

\* "Validate all first": getNodeValidator throws on an unknown label and the
\* catch records it; validator.validate returns its verdict and throws
\* nothing, and the handler does not read what it returns
BatchErrors(members) ==
  SelectSeq(members, LAMBDA m : ~hasNodeLabel(m.label))

\* the handler up to its first await: on errors it returns success: false
BatchStart(c, members) ==
  /\ client[c].pc = "idle"
  /\ uuids + Len(members) <= MaxOps
  /\ LET call == [IdleClient EXCEPT
                    !.op = "batch-upsert",
                    !.result = [entities |-> members, done |-> 0]]
     IN IF BatchErrors(members) # <<>>
        THEN client' = [client EXCEPT ![c] = [call EXCEPT !.outcome = "errors"]]
        ELSE client' = [client EXCEPT ![c] = [call EXCEPT !.pc = "batch"]]
  /\ UNCHANGED <<clock, uuids, constraint, entities, states, audit, edges, tools>>

\* "Write all": the upsert of the next member; what it throws ends the
\* handler, and after the last member the handler returns success: true
BatchUpsert(c) ==
  /\ client[c].pc = "batch"
  /\ LET call == client[c]
         ent == call.result.entities[call.result.done + 1]
         error == upsertError(ent.label, ent.id, ent.properties)
     IN /\ upsert(ent.label, ent.id, ent.properties, c)
        /\ client' = [client EXCEPT ![c] =
             IF error # "none"
             THEN [call EXCEPT !.pc = "idle", !.outcome = error]
             ELSE IF call.result.done + 1 = Len(call.result.entities)
             THEN [call EXCEPT !.pc = "idle", !.outcome = "success",
                               !.result.done = call.result.done + 1]
             ELSE [call EXCEPT !.result.done = call.result.done + 1]]
  /\ UNCHANGED <<clock, constraint, tools>>

NextBatch ==
  \/ Tick
  \/ \E members \in BatchInputs : BatchStart(Caller, members)
  \/ BatchUpsert(Caller)

SpecBatch == Init /\ [][NextBatch]_vars

\* crud.ts remove by a caller before the sync, of an entity whose document
\* is in the docs directory: remove leaves the file where it is
RemoveBeforeSync(id) ==
  /\ sync.strategy = "none"
  /\ getCurrent(id) # NULL
  /\ docs[resolveFilePattern(SyncLabel(id), id)] # NoDoc
  /\ remove(id, Caller)
  /\ UNCHANGED <<clock, constraint, client, tools>>

NextDeleted ==
  \/ \E id \in SyncIds : RemoveBeforeSync(id)
  \/ \E strategy \in Strategies, files \in GlobOrders : SyncStart(strategy, files)
  \/ SyncApplyResolved
  \/ SyncApplyChange
  \/ SyncRender

\* the docs directory holds no file but those the template names
InitDeleted == InitSync /\ docs[NotesPath] = NoDoc

SpecDeleted == InitDeleted /\ [][NextDeleted]_vars

TypeOK ==
  /\ clock \in 1..MaxClock
  /\ uuids \in 0..(MaxOps + 1)
  /\ constraint \in BOOLEAN
  /\ \A i \in DOMAIN entities : entities[i].current \in DOMAIN states
  /\ \A c \in Clients : client[c].pc \in
       {"idle", "getCurrent", "upsertWrite", "removeWrite", "relateWrite", "unrelateWrite",
        "batch"}

\* --------------------------------------------------------- properties
StatesOf(id) == {s \in DOMAIN states : states[s].entityId = id}
AuditOf(id) == {a \in DOMAIN audit : audit[a].entityId = id}
HeadsOf(id) == {s \in StatesOf(id) : states[s].validTo = NULL}
VersionsOf(id) == {states[s].version : s \in StatesOf(id)}
EntityIds == {entities[i].id : i \in DOMAIN entities}
UpsertOutcomes == {"created", "updated", "ConstraintError", "TypeError"}

\* both clients have finished one upsert of id, and no other call reached
\* the store
TwoUpsertsDone(id) ==
  /\ uuids = 2
  /\ \A c \in Clients :
       client[c].pc = "idle" /\ client[c].id = id /\ client[c].outcome \in UpsertOutcomes

\* C1: two upserts of one id, interleaved in any order, leave exactly two
\* audit entries for the id, two states with consecutive versions, and at
\* most one state with validTo = null.
C1_TwoConcurrentUpserts ==
  \A id \in Ids :
    TwoUpsertsDone(id) =>
      /\ Cardinality(AuditOf(id)) = 2
      /\ Cardinality(StatesOf(id)) = 2
      /\ VersionsOf(id) = {1, 2}
      /\ Cardinality(HeadsOf(id)) <= 1

\* C2: for every entity id the versions of its states are exactly 1..n, no
\* gap and no duplicate, and CURRENT of the entity points to version n.
C2_VersionsContiguous ==
  \A id \in EntityIds :
    LET n == Cardinality(StatesOf(id)) IN
      /\ VersionsOf(id) = 1..n
      /\ \A i \in EntityNodes(id) : states[entities[i].current].version = n

\* C3: for every entity and every timestamp t from its createdAt up to its
\* delete time, exactly one of its states has validFrom <= t < validTo
\* (validTo = null counting as +infinity).
ValidAt(s, t) ==
  states[s].validFrom <= t /\ (states[s].validTo = NULL \/ t < states[s].validTo)

C3_OneStatePerInstant ==
  \A i \in DOMAIN entities : \A t \in 1..MaxClock :
    (/\ entities[i].createdAt <= t
     /\ (entities[i].deletedAt = NULL \/ t < entities[i].deletedAt))
    => Cardinality({s \in StatesOf(entities[i].id) : ValidAt(s, t)}) = 1

\* C4: an entity that is not deleted has exactly one state with
\* validTo = null; a deleted entity has none, and the validTo of its latest
\* state is the delete time.
LatestOf(id) ==
  CHOOSE s \in StatesOf(id) : \A o \in StatesOf(id) : states[o].version <= states[s].version

C4_OneOpenState ==
  \A i \in DOMAIN entities :
    IF entities[i].deletedAt = NULL
    THEN Cardinality(HeadsOf(entities[i].id)) = 1
    ELSE /\ HeadsOf(entities[i].id) = {}
         /\ states[LatestOf(entities[i].id)].validTo = entities[i].deletedAt

\* C5: once a delete of id has committed, getCurrent(id) is null from then on.
DeleteCommitted(id) == \E a \in AuditOf(id) : audit[a].action = "delete"

C5_DeletedStaysNull ==
  \A id \in Ids : DeleteCommitted(id) => getCurrent(id) = NULL

\* C6: a delete of an entity that is already deleted changes nothing: not
\* deletedAt or deletedBy, not the validTo of a state, not the audit log.
AlreadyDeleted(id) ==
  /\ EntityNodes(id) # {}
  /\ \A i \in EntityNodes(id) : entities[i].deletedAt # NULL

C6_DeleteIdempotent ==
  [][\A c \in Clients :
       (/\ client[c].pc = "removeWrite"
        /\ client'[c].pc = "idle"
        /\ AlreadyDeleted(client[c].id))
       => (entities' = entities /\ states' = states /\ audit' = audit)]_vars

\* C7: an upsert whose label is not in the schema, or whose properties have
\* an unknown key, lack a required key or have a value of the wrong type,
\* throws before any store call and leaves entities, states, audit entries
\* and edges as they were; only calls free of these faults reach the store.
UnknownKey(label, props) == \E p \in props : p[1] \notin DOMAIN NodeDefs[label]
MissingRequired(label, props) ==
  \E k \in DOMAIN NodeDefs[label] : NodeDefs[label][k].required /\ k \notin Keys(props)
WrongType(label, props) ==
  \E p \in props :
    /\ p[1] \in DOMAIN NodeDefs[label]
    /\ \/ (NodeDefs[label][p[1]].type = "string" /\ p[2] \notin StringValues)
       \/ (NodeDefs[label][p[1]].type = "number" /\ p[2] \notin NumberValues)
Faulty(label, props) ==
  \/ label \notin {"Person", "Project"}
  \/ UnknownKey(label, props)
  \/ MissingRequired(label, props)
  \/ WrongType(label, props)

ValidationErrors == {"UnknownLabel", "ValidationError"}

C7_InvalidUpsertTouchesNothing ==
  [][/\ \A c \in Clients :
          client'[c].pc \in {"getCurrent", "upsertWrite"}
          => ~Faulty(client'[c].label, client'[c].props)
     /\ \A c \in Clients :
          (client'[c] # client[c] /\ client'[c].outcome \in ValidationErrors)
          => (/\ client[c].pc = "idle"
              /\ client'[c].pc = "idle"
              /\ store' = store
              /\ uuids' = uuids)]_vars

\* a validation error has been thrown at a store that holds an entity
C7_Witness ==
  /\ \E c \in Clients : client[c].outcome \in ValidationErrors
  /\ Len(entities) > 0 /\ Len(audit) > 0

\* C8: every mutation that commits appends exactly one audit entry, with its
\* action and actor, and the entries already in the log stay as they are.
Writing(c) == client[c].pc \in {"upsertWrite", "removeWrite", "relateWrite", "unrelateWrite"}
ActionsOf(pc) ==
  CASE pc = "upsertWrite" -> {"create", "update"}
    [] pc = "removeWrite" -> {"delete"}
    [] pc = "relateWrite" -> {"relate"}
    [] OTHER -> {"unrelate"}

C8_OneAuditEntryPerMutation ==
  [][\A c \in Clients :
       (Writing(c) /\ client'[c].pc = "idle")
       => /\ SubSeq(audit', 1, Len(audit)) = audit
          /\ store' # store
             => /\ Len(audit') = Len(audit) + 1
                /\ audit'[Len(audit')].actor = c
                /\ audit'[Len(audit')].action \in ActionsOf(client[c].pc)]_vars

\* C9: the upserts of one entity are linearizable: its versions are
\* contiguous, and its create/update audit entries, taken in the order of
\* the versions they produced (the order their transactions committed), have
\* non-decreasing timestamps.
UpsertAudit(id) ==
  SelectSeq(audit, LAMBDA a : a.entityId = id /\ a.action \in {"create", "update"})

C9_UpsertsLinearizable ==
  \A id \in EntityIds :
    /\ VersionsOf(id) = 1..Cardinality(StatesOf(id))
    /\ \A j, k \in DOMAIN UpsertAudit(id) :
         j < k => UpsertAudit(id)[j].timestamp <= UpsertAudit(id)[k].timestamp

\* C10: at most one active edge of a type from one id to another.
ActiveEdges(fromId, toId, type) == UnrelateRows(fromId, toId, type)

C10_OneActiveEdge ==
  \A fromId \in Ids, toId \in Ids, type \in TypeInputs :
    Cardinality(ActiveEdges(fromId, toId, type)) <= 1

\* C11: an unrelate whose write transaction finds no active edge of its type
\* from fromId to toId leaves every entity, edge and state and the audit log
\* unchanged; it returns without error when the type is an identifier
\* ([A-Za-z_][A-Za-z0-9_]*).
NoActiveEdge(fromId, toId, type) ==
  ~\E e \in DOMAIN edges :
     /\ edges[e].type = type /\ edges[e].validTo = NULL
     /\ entities[edges[e].from].id = fromId /\ entities[edges[e].to].id = toId

UnrelateOfNothing(c) ==
  /\ client[c].pc = "unrelateWrite"
  /\ client'[c].pc = "idle"
  /\ NoActiveEdge(client[c].id, client[c].toId, client[c].type)

C11_UnrelateOfNothing ==
  [][\A c \in Clients :
       UnrelateOfNothing(c)
       => /\ entities' = entities /\ edges' = edges
          /\ states' = states /\ audit' = audit
          /\ client[c].type \in TypeInputs => client'[c].outcome = "unrelated"]_vars

\* an unrelate has returned at a store that holds an edge and no unrelate
\* audit entry
C11_Witness ==
  /\ \E c \in Clients : client[c].outcome = "unrelated"
  /\ Len(edges) > 0
  /\ \A a \in DOMAIN audit : audit[a].action # "unrelate"

\* C11 as claimed: every unrelate of nothing returns without error
C11_AlwaysReturns ==
  [][\A c \in Clients :
       UnrelateOfNothing(c)
       => /\ edges' = edges /\ states' = states /\ audit' = audit
          /\ client'[c].outcome = "unrelated"]_vars

\* C12: an upsert returns created = true and version = 1 exactly when the
\* id had no open head state before the call, otherwise created = false and
\* version = (version of the head) + 1; either way it adds exactly one state
\* to the history of the id.  Calls do not overlap under SpecSequential, so
\* the store before the write transaction is the store before the call.
HeadVersions(id) == {states[s].version : s \in HeadsOf(id)}

C12_UpsertResult ==
  [][(client[Caller].pc = "upsertWrite" /\ client'[Caller].pc = "idle")
     => LET id == client[Caller].id
            added == {s \in DOMAIN states' : states'[s].entityId = id}
        IN /\ Cardinality(added) = Cardinality(StatesOf(id)) + 1
           /\ IF HeadsOf(id) = {}
              THEN client'[Caller].outcome = "created" /\ client'[Caller].version = 1
              ELSE /\ client'[Caller].outcome = "updated"
                   /\ \E v \in HeadVersions(id) : client'[Caller].version = v + 1]_vars

\* C13: getAtTime(id, t) returns null exactly when no state of id has
\* validFrom <= t and (validTo = null or validTo > t), and otherwise a state
\* of id that has; at t equal to the validFrom of version k+1 it never
\* returns the version k that k+1 replaced, and it returns version k+1 when
\* that is the one state of id valid at t.
Reads(c) ==
  /\ client[c].pc = "idle"
  /\ client'[c] # client[c]
  /\ client'[c].outcome \in {"state", "null"}

Replaces(s, id, t) ==
  s \in StatesOf(id) /\ states[s].previous # NULL /\ states[s].validFrom = t

C13_GetAtTime ==
  [][\A c \in Clients :
       Reads(c)
       => LET id == client'[c].id
              t == client'[c].now
              valid == {s \in StatesOf(id) : ValidAt(s, t)}
              res == client'[c].result
          IN /\ client'[c].outcome = "null" <=> valid = {}
             /\ client'[c].outcome = "null" => res = NULL
             /\ client'[c].outcome = "state" => res \in valid
             /\ \A s \in DOMAIN states :
                  Replaces(s, id, t)
                  => /\ res # states[s].previous
                     /\ valid = {s} => res = s]_vars

\* a read at the validFrom of a version that replaced another has returned
\* that version
C13_Witness ==
  \E c \in Clients :
    /\ client[c].outcome = "state"
    /\ Replaces(client[c].result, client[c].id, client[c].now)

\* C13 as claimed: at t equal to the validFrom of version k+1, getAtTime
\* returns version k+1
C13_ReturnsNewVersion ==
  [][\A c \in Clients :
       Reads(c)
       => \A s \in DOMAIN states :
            Replaces(s, client'[c].id, client'[c].now) => client'[c].result = s]_vars

\* the documents of an id and the entity nodes queryByLabel returns for it
DocsOf(id) == {p \in DocPaths : docs[p] # NoDoc /\ docs[p].id = id}
LiveOf(id) ==
  {i \in DOMAIN entities :
     /\ entities[i].id = id /\ entities[i].deletedAt = NULL
     /\ states[entities[i].current].validTo = NULL}
LiveProps(id) == {states[entities[i].current].props : i \in LiveOf(id)}

\* ids with a document whose _sync_hash is not the hash of the graph state;
\* with several files of one id, glob's order decides which one sync compares
MayConflict(id) ==
  \E p \in DocsOf(id), props \in LiveProps(id) : docs[p].hash # <<"sha1", props>>
MustConflict(id) ==
  /\ LiveOf(id) # {} /\ DocsOf(id) # {}
  /\ \A p \in DocsOf(id), props \in LiveProps(id) : docs[p].hash # <<"sha1", props>>

\* C14: under strategy fail, a sync whose changeset has a conflict throws an
\* error that names a conflicting entity, and writes nothing to the graph or
\* the docs directory, then or later, also not the changes that are no
\* conflict.
C14_FailAppliesNothing ==
  [][/\ (sync.outcome = "none" /\ sync.pc = "idle" /\ sync'.strategy = "fail")
        => /\ (\E id \in SyncIds : MustConflict(id)) => sync'.outcome = "ConflictError"
           /\ sync'.outcome = "ConflictError"
              => (sync'.pc = "idle" /\ MayConflict(sync'.error))
           /\ (\A id \in SyncIds : ~MayConflict(id)) => sync'.outcome = "none"
     /\ (sync.outcome = "ConflictError" \/ sync'.outcome = "ConflictError")
        => (store' = store /\ docs' = docs)]_vars

\* sync has thrown on a conflict while a document of an id that is not in
\* the graph was waiting to be created there
C14_Witness ==
  /\ sync.outcome = "ConflictError"
  /\ MayConflict(sync.error)
  /\ \E id \in SyncIds : DocsOf(id) # {} /\ LiveOf(id) = {}

\* what a sync call read at its start: the entity of an id, the file of the
\* id that came last in glob's order, and the ids that had both with a
\* _sync_hash that was not the hash of the graph state
ReadEntity(s, id) ==
  s.graphEntities[CHOOSE k \in DOMAIN s.graphEntities : s.graphEntities[k].id = id]
ReadDoc(s, id) ==
  s.parsed[CHOOSE k \in DOMAIN s.parsed :
             /\ s.parsed[k].frontmatter.id = id
             /\ \A j \in DOMAIN s.parsed : s.parsed[j].frontmatter.id = id => j <= k]
InBoth(s, id) ==
  /\ \E k \in DOMAIN s.graphEntities : s.graphEntities[k].id = id
  /\ \E k \in DOMAIN s.parsed : s.parsed[k].frontmatter.id = id
ConflictAtStart(s, id) ==
  /\ InBoth(s, id)
  /\ ReadDoc(s, id).frontmatter.hash # <<"sha1", ReadEntity(s, id).props>>

\* no state and no audit entry of id is added or changed by the step
NoGraphWrite(id) ==
  /\ \A k \in DOMAIN states' :
       states'[k].entityId = id => (k \in DOMAIN states /\ states'[k] = states[k])
  /\ \A k \in DOMAIN audit' :
       audit'[k].entityId = id => (k \in DOMAIN audit /\ audit'[k] = audit[k])

Returns == sync.outcome = "none" /\ sync'.outcome = "returned"

ResolvesConflict ==
  sync.pc = "apply" /\ sync.resolved # <<>> /\ sync'.resolved = Tail(sync.resolved)

DocFirst(graphProps, docProps) ==
  {p \in graphProps \cup docProps : p \in docProps \/ p[1] \notin Keys(docProps)}

Winning(s, id) ==
  IF s.strategy = "docs-wins" THEN ReadDoc(s, id).frontmatter.props
  ELSE DocFirst(ReadEntity(s, id).props, ReadDoc(s, id).frontmatter.props)

WithDefaults(label, props) ==
  IF label = "Observation" /\ "status" \notin Keys(props)
  THEN props \cup {<<"status", "open">>} ELSE props

Written == {k \in DOMAIN states' : k \notin DOMAIN states}

\* C16: the state that the resolution of a conflict writes holds, under
\* docs-wins, the document's properties and, under merge, the graph's and the
\* document's properties with the document's value for a key of both, in
\* each case with the schema's defaults for the keys they lack.
C16_WinningProperties ==
  [][(ResolvesConflict /\ sync.strategy \in {"docs-wins", "merge"})
     => LET id == Head(sync.resolved).entityId
        IN \A k \in Written :
             /\ states'[k].entityId = id
             /\ states'[k].props =
                  WithDefaults(ReadEntity(sync, id).label, Winning(sync, id))]_vars

\* a merge has written a state that has a key of the graph alone and the
\* document's value of a key of both
C16_Witness ==
  \E k \in DOMAIN states :
    /\ states[k].actor = SyncActor
    /\ sync.strategy = "merge"
    /\ states[k].props = {<<"name", "sA">>, <<"age", "n1">>}

\* C16 as claimed: the properties written are exactly the document's, or
\* exactly the union
C16_ExactlyTheWinning ==
  [][(ResolvesConflict /\ sync.strategy \in {"docs-wins", "merge"})
     => \A k \in Written :
          states'[k].props = Winning(sync, Head(sync.resolved).entityId)]_vars

\* the ids whose document sync read with the hash of the graph state and
\* with other properties than the graph state's, and those of them whose
\* document passes the schema of its label
UpdateAtStart(s, id) ==
  /\ InBoth(s, id)
  /\ ReadDoc(s, id).frontmatter.hash = <<"sha1", ReadEntity(s, id).props>>
  /\ ReadDoc(s, id).frontmatter.props # ReadEntity(s, id).props
ValidAtStart(s, id) ==
  SchemaAccepts(NodeDefs[ReadEntity(s, id).label], ReadDoc(s, id).frontmatter.props)

Starts == sync.pc = "idle" /\ sync'.pc = "apply"
AppliesChange(id) ==
  /\ sync.pc = "apply" /\ sync.resolved = <<>> /\ sync.nonConflicts # <<>>
  /\ Head(sync.nonConflicts).entityId = id
  /\ sync'.nonConflicts = Tail(sync.nonConflicts)
QueuedFor(s, id) == {k \in DOMAIN s.nonConflicts : s.nonConflicts[k].entityId = id}

C18_DocsCarryCurrentHash ==
  (sync.outcome = "returned")
  => \A p \in DocPaths :
       docs[p] # NoDoc
       => \A props \in LiveProps(docs[p].id) :
            docs[p].hash = <<"sha1", props>> /\ docs[p].props = props

\* C19: under graph-wins, docs-wins and merge, the step that applies the
\* resolution of a conflict adds exactly one ConflictRecord, the entity's, to
\* SyncResult.conflicts and leaves SyncResult.updated as it was.
C19_OneRecordNotUpdated ==
  [][ResolvesConflict
     => /\ Len(sync'.result.conflicts) = Len(sync.result.conflicts) + 1
        /\ sync'.result.conflicts[Len(sync'.result.conflicts)].entityId =
             Head(sync.resolved).entityId
        /\ sync'.result.updated = sync.result.updated]_vars

\* a call of runScan starts, directly after a call that returned and was no
\* dry run, on source files that are as that call read them
Rescans ==
  /\ scan.pc = "idle" /\ scan'.runs = scan.runs + 1
  /\ scan.outcome = "returned" /\ ~scan.result.dryRun
  /\ root.files = scan.read

\* C20: a scan run directly after a completed scan that was no dry run, of
\* the same root with no source file changed, returns with filesParsed = 0,
\* entitiesUpserted = 0 and entitiesSkipped = 0, and writes nothing to the
\* graph.
C20_RescanParsesNothing ==
  [][Rescans
     => /\ scan'.outcome = "returned"
        /\ scan'.result.filesParsed = 0
        /\ scan'.result.entitiesUpserted = 0
        /\ scan'.result.entitiesSkipped = 0
        /\ store' = store /\ uuids' = uuids]_vars

\* the second of two scans of the same two files has returned, after the
\* first one parsed them and upserted an entity
C20_Witness ==
  /\ scan.outcome = "returned" /\ scan.pc = "idle"
  /\ scan.previous.outcome = "returned" /\ ~scan.previous.dryRun
  /\ scan.previous.read = scan.read
  /\ scan.result.filesDiscovered = 2 /\ scan.result.filesParsed = 0
  /\ \E k \in DOMAIN states : states[k].actor = ScanActor

\* a scan has returned that followed a scan of a.ts with function f alone
\* and read a.ts with function g added, b.py being as it was
RescannedAfterEdit ==
  /\ scan.outcome = "returned" /\ ~scan.result.dryRun
  /\ scan.previous.outcome = "returned" /\ ~scan.previous.dryRun
  /\ scan.previous.read["a.ts"] = "v1" /\ scan.read["a.ts"] = "v2"
  /\ scan.previous.read["b.py"] = scan.read["b.py"]

\* C21: the scan after a scanned file got one new function upserts the
\* entity of the new function and the file entity and no other:
\* entitiesUpserted = 2, and the entity of the unchanged function f keeps its
\* one state.
C21_OnlyNewArtifactsUpserted ==
  RescannedAfterEdit
  => /\ scan.result.entitiesUpserted = 2
     /\ Cardinality({k \in DOMAIN states :
                       states[k].entityId = generateEntityId("a.ts", "function", "f")}) = 1

\* C22: every step of a dry-run scan leaves the graph (no upsert, no relate,
\* no uuid drawn) and the root with its fingerprint store as they are, and
\* the scan returns with its counters: filesDiscovered counts the source
\* files of the root and entitiesUpserted is 0.
C22_DryRunWritesNothing ==
  [][(scan' # scan /\ scan'.result.dryRun)
     => /\ store' = store /\ uuids' = uuids
        /\ root' = root
        /\ scan'.outcome = "returned"
        /\ scan'.result.filesDiscovered =
             Cardinality({path \in ScanPaths : root.files[path] # Absent})
        /\ scan'.result.entitiesUpserted = 0]_vars

\* a dry run of both files has returned on a root without a store: it counted
\* the relation and the mapped entities it would have written
C22_Witness ==
  /\ scan.outcome = "returned" /\ scan.result.dryRun
  /\ scan.result.filesParsed = 2
  /\ scan.result.relationsCreated = 1
  /\ scan.result.entitiesSkipped = 5
  /\ ~root.hasStore /\ states = <<>> /\ edges = <<>>

\* a call of changesSince returns in this step, and its limit cuts nothing
ChangesReturn ==
  /\ client'[Caller] # client[Caller]
  /\ client'[Caller].op = "changesSince" /\ client'[Caller].outcome = "returned"
  /\ client'[Caller].result.limit = DefaultLimit

\* the ids of the records the call returns
ChangedIds == {entities[client'[Caller].result.records[k].entity].id :
                 k \in DOMAIN client'[Caller].result.records}

\* C23: changesSince(t, labels, actors, limit) returns every entity that has
\* an audit entry after t passing the label and actor filters, whether the
\* entry records a create, an update or a delete, most recent change first.
C23_EveryChangedEntityReturned ==
  [][ChangesReturn
     => /\ \A a \in DOMAIN audit :
             (/\ audit[a].timestamp > client'[Caller].now
              /\ (client'[Caller].result.labels = NoFilter
                    \/ audit[a].label \in client'[Caller].result.labels)
              /\ (client'[Caller].result.actors = NoFilter
                    \/ audit[a].actor \in client'[Caller].result.actors))
             => audit[a].entityId \in ChangedIds
        /\ \A j, k \in DOMAIN client'[Caller].result.records :
             j < k => client'[Caller].result.records[j].lastChange
                        >= client'[Caller].result.records[k].lastChange]_vars

\* a call of snapshotAt returns in this step
SnapshotReturn ==
  /\ client'[Caller] # client[Caller]
  /\ client'[Caller].op = "snapshotAt" /\ client'[Caller].outcome = "returned"

\* the states the snapshot holds for the entity id
SnapshotStates(id) ==
  {row[2] : row \in {r \in client'[Caller].result.entities : entities[r[1]].id = id}}

\* C24: for every entity of a requested label, snapshotAt(t) holds exactly
\* the state getAtTime(id, t) returns, and no entry when getAtTime(id, t)
\* is null; an entity soft-deleted after t is in the snapshot at t.
C24_SnapshotIsGetAtTime ==
  [][SnapshotReturn
     => \A id \in MemoryIds :
          MemoryLabel(id) \in targetLabels(client'[Caller].result.labels)
          => IF cypherGetAtTime(id, client'[Caller].now) = {}
             THEN SnapshotStates(id) = {}
             ELSE \E s \in cypherGetAtTime(id, client'[Caller].now) :
                    SnapshotStates(id) = {s}]_vars

\* a member the batch-upsert tool must refuse: unknown label, or properties
\* the validator of its label rejects
BadMember(m) ==
  ~hasNodeLabel(m.label) \/ ~SchemaAccepts(NodeDefs[m.label], m.properties)

\* the call of batch-upsert in flight has such a member
BadBatch ==
  /\ client[Caller].op = "batch-upsert"
  /\ \E k \in DOMAIN client[Caller].result.entities :
       BadMember(client[Caller].result.entities[k])

\* C25: batch-upsert validates all members before it writes any: no step of
\* a call with a member of unknown label or invalid properties writes to
\* the store.
C25_BadBatchWritesNothing ==
  [][(BadBatch /\ client[Caller].pc = "batch") => store' = store]_vars

\* the changes the sync call computed from what it loaded
SyncChanges == computeChanges(sync.graphEntities, sync.parsed)

\* the ids the call saw in the graph and in the docs
SeenInGraph == {sync.graphEntities[k].id : k \in DOMAIN sync.graphEntities}
SeenInDocs == {sync.parsed[k].frontmatter.id : k \in DOMAIN sync.parsed}

\* the entity and the document the maps keep for an id: the last one loaded
SeenEntity(id) ==
  sync.graphEntities[CHOOSE k \in DOMAIN sync.graphEntities :
     /\ sync.graphEntities[k].id = id
     /\ \A j \in DOMAIN sync.graphEntities : sync.graphEntities[j].id = id => j <= k]
SeenDoc(id) ==
  sync.parsed[CHOOSE k \in DOMAIN sync.parsed :
     /\ sync.parsed[k].frontmatter.id = id
     /\ \A j \in DOMAIN sync.parsed : sync.parsed[j].frontmatter.id = id => j <= k]

\* the change expected for an id seen on at least one side
ExpectedChange(id) ==
  IF id \notin SeenInGraph \/ id \notin SeenInDocs THEN "create"
  ELSE IF SeenDoc(id).frontmatter.hash # computeSyncHash(SeenEntity(id).props)
  THEN "conflict"
  ELSE IF SeenDoc(id).frontmatter.props # SeenEntity(id).props THEN "update"
  ELSE "none"

\* C26: computeChanges emits at most one change for each id seen in the
\* graph or in the docs: a create when the id is on one side only, nothing
\* when the hashes are equal and the properties are equal, an update when
\* the hashes are equal and the properties differ, a conflict when the
\* hashes differ; and no change for an id it has not seen.
C26_OneChangePerId ==
  LET changes == SyncChanges
      seen == SeenInGraph \cup SeenInDocs
      for(id) == {k \in DOMAIN changes : changes[k].entityId = id}
  IN /\ \A k \in DOMAIN changes : changes[k].entityId \in seen
     /\ \A id \in seen :
          LET expected == ExpectedChange(id)
          IN IF expected = "none"
             THEN for(id) = {}
             ELSE /\ Cardinality(for(id)) = 1
                  /\ \A k \in for(id) : changes[k].type = expected

\* a sync call loaded two documents with the id 1, whose entity is in the
\* graph with another hash, and an entity 2 without document: one conflict
\* and one create
C26_Witness ==
  /\ sync.pc = "apply"
  /\ Cardinality({k \in DOMAIN sync.parsed : sync.parsed[k].frontmatter.id = 1}) = 2
  /\ ExpectedChange(1) = "conflict" /\ ExpectedChange(2) = "create"
  /\ Len(SyncChanges) = 2

\* a sync call loaded an entity whose document carries its hash and other
\* properties, and an entity whose document is in sync: one update
C26_WitnessUpdate ==
  /\ sync.pc = "apply"
  /\ ExpectedChange(1) = "update" /\ ExpectedChange(2) = "none"
  /\ 2 \in SeenInGraph /\ 2 \in SeenInDocs
  /\ Len(SyncChanges) = 1

\* the caller has deleted the entity id
DeletedByCaller(id) ==
  \E a \in AuditOf(id) : audit[a].action = "delete" /\ audit[a].actor = Caller

\* C27: an entity deleted while its document is still in the docs directory
\* stays deleted across sync: the graph keeps one Entity node of the id and
\* getCurrent(id) is null, before, during and after the sync.
C27_DeletedStaysDeleted ==
  \A id \in SyncIds :
    DeletedByCaller(id)
    => /\ Cardinality(EntityNodes(id)) = 1
       /\ getCurrent(id) = NULL

\* the document the sync call read for the id was not edited since it was
\* rendered: its properties hash to its own _sync_hash
UneditedAtStart(s, id) ==
  /\ InBoth(s, id)
  /\ ReadDoc(s, id).frontmatter.hash = computeSyncHash(ReadDoc(s, id).frontmatter.props)

\* C28: a document that was not edited since it was last rendered causes no
\* graph write: under every strategy no step of the sync writes a state or
\* an audit entry of its entity, whatever the graph state has become.
C28_UneditedDocWritesNothing ==
  [][\A id \in SyncIds : UneditedAtStart(sync', id) => NoGraphWrite(id)]_vars

\* the Entity nodes that own a state: those whose chain of CURRENT and
\* PREVIOUS links holds it
OwnersOf(s) == {i \in DOMAIN entities : s \in Chain(entities[i].current)}

\* C29: in every reachable state the user properties of each stored state
\* satisfy the validator of the label of the entity that owns the state,
\* also after an upsert on an existing id that names another label.
C29_StatesFitOwnerLabel ==
  \A s \in DOMAIN states : \A i \in OwnersOf(s) :
    /\ hasNodeLabel(entities[i].label)
    /\ SchemaAccepts(NodeDefs[entities[i].label], states[s].props)

\* the files an upsert of the returned scan failed for
FailedFiles == {scan.result.errors[k].file : k \in DOMAIN scan.result.errors}

\* C30: the fingerprint of a file is persisted only when every entity
\* extracted from it was upserted: after a scan that was no dry run has
\* returned, the store holds no fingerprint of a file an upsert failed for,
\* and the scan that follows on the unchanged root parses such a file again.
C30_FailedFileNotFingerprinted ==
  /\ (scan.pc = "idle" /\ scan.outcome = "returned" /\ ~scan.result.dryRun)
     => \A path \in FailedFiles : path \notin DOMAIN root.store
  /\ (/\ scan.pc = "ingest" /\ scan.previous.outcome = "returned"
      /\ ~scan.previous.dryRun /\ scan.previous.read = scan.read)
     => scan.result.filesParsed > 0

====
